---- MODULE Spec2Model ----
(***************************************************************************)
(* A model of datas::BTree<int> (src/BTree.hpp, src/BTree.tpp).            *)
(*                                                                         *)
(* A BNode is the record [is_leaf, keys, keys_storage, childrens]; a       *)
(* unique_ptr<BNode> is modelled by the node value it owns, so the tree is *)
(* one nested value.  C++ indices are 0-based: the model keeps the 0-based *)
(* idx of the code and reads s[idx + 1].                                   *)
(*                                                                         *)
(* keys_storage tells whether the std::vector keys owns a buffer           *)
(* (capacity() > 0).  A vector gets its buffer with its first element and  *)
(* keeps it when it is emptied.  It decides what an out-of-bounds read of  *)
(* an empty keys vector does:                                              *)
(*   - without a buffer the read goes through a null pointer: the process  *)
(*     is killed (NullDeref);                                              *)
(*   - with a buffer it reads a word next to or inside the buffer: the     *)
(*     process is killed or the read yields some int (OOB).                *)
(* The code reads out of bounds in findPred / findSuc on an empty leaf and *)
(* in fixChild on a node with a single child (mergeSiblings(node, -1),     *)
(* which goes on to dereference childrens[-1]: the process is killed).     *)
(***************************************************************************)
EXTENDS Integers, Sequences, FiniteSets, TLC

\* ---- the smallest order BTree::BTree accepts -----------------------------
MinOrder == 3

\* ---- bounds of the model ------------------------------------------------
MaxOrder == 5      \* largest order explored
MaxVal   == 2      \* values passed to insert / find / remove are 1..MaxVal
MaxKeys  == 7      \* insert is explored while the tree holds fewer keys

Orders == MinOrder..MaxOrder
Vals   == 1..MaxVal

\* ---- outcomes of an out-of-bounds read ----------------------------------
NullDeref == -3                  \* marker: read through a null buffer pointer
OOB     == -2                    \* marker: out-of-bounds read next to a buffer
Crash   == -1                    \* outcome: the process dies (SIGSEGV)
Garbage == 0..MaxVal             \* outcome: the read yields some int
UBOutcomes == {Crash} \cup Garbage
AllVals == Vals \cup Garbage

NoErr        == "none"
ErrSplit     == "splitting none full node"
ErrFullLeaf  == "inserting to full leaf"
ErrCrash     == "crash"

\* order, min_keys, min_size, root : the fields of BTree
\* err    : how the last call ended (normal return, exception thrown, crash)
\* lastOp : the last call, its argument and, for find, its result
\*          (for remove: whether findVal found the value)
\* ref    : reference multiset of the values inserted and not yet removed
\* pc     : the number of calls the main of btreeTest.cpp has made on its
\*          tree (0 throughout for a tree that is not the one of that main)
\* tree_size        : the counter of BTreeInterface (0 where no shell runs)
\* avl_root         : the field root of AVLTree (null where none is used)
\* stack_s, stack_t : the two Stack objects of stackTest.cpp
VARIABLES order, min_keys, min_size, root, err, lastOp, ref, pc,
          tree_size, avl_root, stack_s, stack_t

vars == <<order, min_keys, min_size, root, err, lastOp, ref, pc,
          tree_size, avl_root, stack_s, stack_t>>

\* the objects beside the B-tree
others == <<tree_size, avl_root, stack_s, stack_t>>

\* ---- std::vector helpers (0-based positions) ----------------------------
InsertAt(s, i, x) == SubSeq(s, 1, i) \o <<x>> \o SubSeq(s, i + 1, Len(s))
EraseAt(s, i)     == SubSeq(s, 1, i) \o SubSeq(s, i + 2, Len(s))
Front(s)          == s[1]
Back(s)           == s[Len(s)]
PopBack(s)        == SubSeq(s, 1, Len(s) - 1)

\* a null pointer
NullNode == [null |-> TRUE]

\* Stack::Stack: top is the list of the data from the top node down
EmptyStack == [top |-> <<>>, size |-> 0]

\* no shell, no AVL tree in use, both stacks as constructed
NoOthers ==
    /\ tree_size = 0
    /\ avl_root = NullNode
    /\ stack_s = EmptyStack
    /\ stack_t = EmptyStack

BNode(is_leaf) ==
    [is_leaf |-> is_leaf, keys |-> <<>>, keys_storage |-> FALSE, childrens |-> <<>>]

\* ---- BTree::keyIndex ----------------------------------------------------
\* (variant: the scan also steps over keys equal to val)
RECURSIVE keyScan_le(_, _, _)
keyScan_le(keys, val, idx) ==
    IF idx < Len(keys) /\ keys[idx + 1] <= val
    THEN keyScan_le(keys, val, idx + 1)
    ELSE idx

RECURSIVE keyScan(_, _, _)
keyScan(keys, val, idx) ==
    IF idx < Len(keys) /\ keys[idx + 1] < val
    THEN keyScan(keys, val, idx + 1)
    ELSE idx

keyIndex(node, val) == keyScan(node.keys, val, 0)

\* ---- BTree::findVal -----------------------------------------------------
RECURSIVE findVal(_, _)
findVal(node, val) ==
    LET idx == keyIndex(node, val) IN
    IF idx < Len(node.keys) /\ node.keys[idx + 1] = val THEN TRUE
    ELSE IF node.is_leaf THEN FALSE
    ELSE findVal(node.childrens[idx + 1], val)

\* ---- BTree::splitSibling ------------------------------------------------
\* Returns the node as left behind, the new sibling and midVal.
splitMid == (order - 1) \div 2

\* (variant: the new sibling is always created as a leaf)
splitSibling_leafSibling(node) ==
    IF Len(node.keys) # order - 1
    THEN [err |-> ErrSplit, node |-> node, sibling |-> BNode(TRUE), midVal |-> 0]
    ELSE LET mid     == splitMid
             nk      == Len(node.keys)
             nc      == Len(node.childrens)
             sibKeys == SubSeq(node.keys, mid + 2, nk)
         IN [err     |-> NoErr,
             midVal  |-> node.keys[mid + 1],
             sibling |-> [BNode(TRUE) EXCEPT
                            !.keys         = sibKeys,
                            !.keys_storage = sibKeys # <<>>,
                            !.childrens    = IF node.is_leaf THEN <<>>
                                             ELSE SubSeq(node.childrens, mid + 2, nc)],
             node    |-> [node EXCEPT
                            !.keys      = SubSeq(@, 1, mid),
                            !.childrens = IF node.is_leaf THEN @
                                          ELSE SubSeq(@, 1, mid + 1)]]

\* (variant: the sibling's keys start at mid instead of mid + 1)
splitSibling_keepMedian(node) ==
    IF Len(node.keys) # order - 1
    THEN [err |-> ErrSplit, node |-> node, sibling |-> BNode(node.is_leaf), midVal |-> 0]
    ELSE LET mid     == splitMid
             nk      == Len(node.keys)
             nc      == Len(node.childrens)
             sibKeys == SubSeq(node.keys, mid + 1, nk)
         IN [err     |-> NoErr,
             midVal  |-> node.keys[mid + 1],
             sibling |-> [BNode(node.is_leaf) EXCEPT
                            !.keys         = sibKeys,
                            !.keys_storage = sibKeys # <<>>,
                            !.childrens    = IF node.is_leaf THEN <<>>
                                             ELSE SubSeq(node.childrens, mid + 2, nc)],
             node    |-> [node EXCEPT
                            !.keys      = SubSeq(@, 1, mid),
                            !.childrens = IF node.is_leaf THEN @
                                          ELSE SubSeq(@, 1, mid + 1)]]

splitSibling(node) ==
    IF Len(node.keys) # order - 1
    THEN [err |-> ErrSplit, node |-> node, sibling |-> BNode(node.is_leaf), midVal |-> 0]
    ELSE LET mid     == splitMid
             nk      == Len(node.keys)
             nc      == Len(node.childrens)
             sibKeys == SubSeq(node.keys, mid + 2, nk)
         IN [err     |-> NoErr,
             midVal  |-> node.keys[mid + 1],
             sibling |-> [BNode(node.is_leaf) EXCEPT
                            !.keys         = sibKeys,
                            !.keys_storage = sibKeys # <<>>,
                            !.childrens    = IF node.is_leaf THEN <<>>
                                             ELSE SubSeq(node.childrens, mid + 2, nc)],
             node    |-> [node EXCEPT
                            !.keys      = SubSeq(@, 1, mid),
                            !.childrens = IF node.is_leaf THEN @
                                          ELSE SubSeq(@, 1, mid + 1)]]

\* ---- BTree::splitChild --------------------------------------------------
\* (variant: the median is inserted at keys.begin())
splitChild_keyAtBegin(node, index) ==
    LET s == splitSibling(node.childrens[index + 1]) IN
    IF s.err # NoErr THEN [err |-> s.err, node |-> node]
    ELSE [err  |-> NoErr,
          node |-> [node EXCEPT
                      !.childrens = InsertAt([@ EXCEPT ![index + 1] = s.node],
                                             index + 1, s.sibling),
                      !.keys         = InsertAt(@, 0, s.midVal),
                      !.keys_storage = TRUE]]

splitChild(node, index) ==
    LET s == splitSibling(node.childrens[index + 1]) IN
    IF s.err # NoErr THEN [err |-> s.err, node |-> node]
    ELSE [err  |-> NoErr,
          node |-> [node EXCEPT
                      !.childrens = InsertAt([@ EXCEPT ![index + 1] = s.node],
                                             index + 1, s.sibling),
                      !.keys         = InsertAt(@, index, s.midVal),
                      !.keys_storage = TRUE]]

\* ---- BTree::insertVal ---------------------------------------------------
RECURSIVE insertVal(_, _)
insertVal(node, val) ==
    LET idx == keyIndex(node, val) IN
    IF node.is_leaf
    THEN IF Len(node.keys) >= order - 1
         THEN [err |-> ErrFullLeaf, node |-> node]
         ELSE [err |-> NoErr, node |-> [node EXCEPT !.keys = InsertAt(@, idx, val),
                                                    !.keys_storage = TRUE]]
    ELSE LET full == Len(node.childrens[idx + 1].keys) = order - 1
             sc   == IF full THEN splitChild(node, idx) ELSE [err |-> NoErr, node |-> node]
         IN IF sc.err # NoErr THEN sc
            ELSE LET idx1 == IF full THEN keyIndex(sc.node, val) ELSE idx
                     r    == insertVal(sc.node.childrens[idx1 + 1], val)
                 IN [err  |-> r.err,
                     node |-> [sc.node EXCEPT !.childrens[idx1 + 1] = r.node]]

\* ---- BTree::mergeSiblings -----------------------------------------------
\* (variant: the is_leaf test is inverted, the children are not moved)
mergeSiblings_childrenLost(node, idx) ==
    LET key    == node.keys[idx + 1]
        left   == node.childrens[idx + 1]
        right  == node.childrens[idx + 2]
        merged == [left EXCEPT
                     !.keys         = (@ \o <<key>>) \o right.keys,
                     !.keys_storage = TRUE,
                     !.childrens    = IF left.is_leaf THEN @ \o right.childrens ELSE @]
    IN [node EXCEPT
           !.keys      = EraseAt(@, idx),
           !.childrens = EraseAt([@ EXCEPT ![idx + 1] = merged], idx + 1)]

\* (variant: the separator key is erased and not moved down)
mergeSiblings_keyDropped(node, idx) ==
    LET left   == node.childrens[idx + 1]
        right  == node.childrens[idx + 2]
        merged == [left EXCEPT
                     !.keys         = @ \o right.keys,
                     !.keys_storage = TRUE,
                     !.childrens    = IF left.is_leaf THEN @ ELSE @ \o right.childrens]
    IN [node EXCEPT
           !.keys      = EraseAt(@, idx),
           !.childrens = EraseAt([@ EXCEPT ![idx + 1] = merged], idx + 1)]

mergeSiblings(node, idx) ==
    LET key    == node.keys[idx + 1]
        left   == node.childrens[idx + 1]
        right  == node.childrens[idx + 2]
        merged == [left EXCEPT
                     !.keys         = (@ \o <<key>>) \o right.keys,
                     !.keys_storage = TRUE,
                     !.childrens    = IF left.is_leaf THEN @ ELSE @ \o right.childrens]
    IN [node EXCEPT
           !.keys      = EraseAt(@, idx),
           !.childrens = EraseAt([@ EXCEPT ![idx + 1] = merged], idx + 1)]

\* ---- BTree::borrowFromRight ---------------------------------------------
borrowFromRight(node, idx) ==
    LET left   == node.childrens[idx + 1]
        right  == node.childrens[idx + 2]
        left1  == [left EXCEPT
                     !.keys         = Append(@, node.keys[idx + 1]),
                     !.keys_storage = TRUE,
                     !.childrens    = IF left.is_leaf THEN @
                                      ELSE Append(@, Front(right.childrens))]
        right1 == [right EXCEPT
                     !.keys      = Tail(@),
                     !.childrens = IF left.is_leaf THEN @ ELSE Tail(@)]
    IN [node EXCEPT
           !.keys[idx + 1]      = Front(right.keys),
           !.childrens[idx + 1] = left1,
           !.childrens[idx + 2] = right1]

\* ---- BTree::borrowFromLeft ----------------------------------------------
borrowFromLeft(node, idx) ==
    LET left   == node.childrens[idx]
        right  == node.childrens[idx + 1]
        right1 == [right EXCEPT
                     !.keys         = <<node.keys[idx]>> \o @,
                     !.keys_storage = TRUE,
                     !.childrens    = IF right.is_leaf THEN @
                                      ELSE <<Back(left.childrens)>> \o @]
        left1  == [left EXCEPT
                     !.keys      = PopBack(@),
                     !.childrens = IF right.is_leaf THEN @ ELSE PopBack(@)]
    IN [node EXCEPT
           !.keys[idx]          = Back(left.keys),
           !.childrens[idx]     = left1,
           !.childrens[idx + 1] = right1]

\* ---- BTree::fixChild ----------------------------------------------------
\* mergeSiblings(node, -1) indexes keys[-1] and childrens[-1]: crash.
\* (variant: a child below min_keys is left as it is)
fixChild_leaveShort(node, idx) == [err |-> NoErr, node |-> node]

fixChild(node, idx) ==
    LET nc == Len(node.childrens) IN
    IF Len(node.childrens[idx + 1].keys) >= min_keys
    THEN [err |-> NoErr, node |-> node]
    ELSE IF idx > 0 /\ Len(node.childrens[idx].keys) > min_keys
    THEN [err |-> NoErr, node |-> borrowFromLeft(node, idx)]
    ELSE IF idx < nc - 1 /\ Len(node.childrens[idx + 2].keys) > min_keys
    THEN [err |-> NoErr, node |-> borrowFromRight(node, idx)]
    ELSE LET leftIdx == IF idx < nc - 1 THEN idx ELSE idx - 1 IN
         IF leftIdx < 0
         THEN [err |-> ErrCrash, node |-> node]
         ELSE [err |-> NoErr, node |-> mergeSiblings(node, leftIdx)]

\* ---- BTree::findSuc / BTree::findPred -----------------------------------
\* keys[0] and keys[size() - 1] do not exist when the leaf reached is empty.
OobRead(node) == IF node.keys_storage THEN OOB ELSE NullDeref

RECURSIVE findSuc(_)
findSuc(node) ==
    IF ~node.is_leaf THEN findSuc(node.childrens[1])
    ELSE IF Len(node.keys) = 0 THEN OobRead(node) ELSE node.keys[1]

RECURSIVE findPred(_)
findPred(node) ==
    IF ~node.is_leaf THEN findPred(node.childrens[Len(node.keys) + 1])
    ELSE IF Len(node.keys) = 0 THEN OobRead(node) ELSE node.keys[Len(node.keys)]

\* ---- BTree::removeVal ---------------------------------------------------
\* ub is the outcome of an out-of-bounds read next to a buffer, should one
\* happen: Crash or the int that is read.  The field oob of the result
\* tells whether such a read happened.
RECURSIVE removeVal(_, _, _)
removeVal(node, val, ub) ==
    LET idx == keyIndex(node, val) IN
    IF node.is_leaf
    THEN [err  |-> NoErr, oob |-> FALSE,
          node |-> IF idx < Len(node.keys) /\ node.keys[idx + 1] = val
                   THEN [node EXCEPT !.keys = EraseAt(@, idx)]
                   ELSE node]
    ELSE IF idx < Len(node.keys) /\ node.keys[idx + 1] = val
    THEN LET usePred == Len(node.childrens[idx + 1].keys) > min_keys
             useSuc  == ~usePred /\ Len(node.childrens[idx + 2].keys) > min_keys
             read    == IF usePred THEN findPred(node.childrens[idx + 1])
                        ELSE IF useSuc THEN findSuc(node.childrens[idx + 2])
                        ELSE val
             nextValToRemove == IF read = OOB THEN ub ELSE read
             victim  == IF useSuc THEN idx + 1 ELSE idx
             node1   == IF usePred \/ useSuc
                        THEN [node EXCEPT !.keys[idx + 1] = nextValToRemove]
                        ELSE mergeSiblings(node, idx)
         IN IF read = NullDeref \/ (read = OOB /\ ub = Crash)
            THEN [err |-> ErrCrash, oob |-> read = OOB, node |-> node]
            ELSE LET r  == removeVal(node1.childrens[victim + 1], nextValToRemove, ub)
                     n2 == [node1 EXCEPT !.childrens[victim + 1] = r.node]
                     f  == fixChild(n2, victim)
                 IN IF r.err # NoErr
                    THEN [err |-> r.err, oob |-> r.oob \/ read = OOB, node |-> n2]
                    ELSE [err |-> f.err, oob |-> r.oob \/ read = OOB, node |-> f.node]
    ELSE LET r  == removeVal(node.childrens[idx + 1], val, ub)
             n2 == [node EXCEPT !.childrens[idx + 1] = r.node]
             f  == fixChild(n2, idx)
         IN IF r.err # NoErr
            THEN [err |-> r.err, oob |-> r.oob, node |-> n2]
            ELSE [err |-> f.err, oob |-> r.oob, node |-> f.node]

\* ---- measures of a tree -------------------------------------------------
RECURSIVE SumSeq(_)
SumSeq(s) == IF s = <<>> THEN 0 ELSE Head(s) + SumSeq(Tail(s))

\* number of occurrences of v among the keys stored under node
RECURSIVE CountKey(_, _)
CountKey(node, v) ==
    Cardinality({i \in 1..Len(node.keys) : node.keys[i] = v})
    + SumSeq([i \in 1..Len(node.childrens) |-> CountKey(node.childrens[i], v)])

RECURSIVE TotalKeys(_)
TotalKeys(node) ==
    Len(node.keys) + SumSeq([i \in 1..Len(node.childrens) |-> TotalKeys(node.childrens[i])])

\* ---- main of btreeTest.cpp: the calls it makes ---------------------------
TestOrder == 5

TestValues == <<10, 20, 5, 6, 12, 30, 7, 17, 34, 2, 2, 2, 93, 44>>

TestScript ==
    [i \in 1..Len(TestValues) |-> [op |-> "insert", val |-> TestValues[i]]]
    \o <<[op |-> "remove", val |-> 6],  [op |-> "remove", val |-> 17],
         [op |-> "remove", val |-> 10], [op |-> "remove", val |-> 2],
         [op |-> "remove", val |-> 100],
         [op |-> "insert", val |-> 3],  [op |-> "insert", val |-> 4],
         [op |-> "insert", val |-> 15]>>

TestVals == {TestScript[i].val : i \in 1..Len(TestScript)}

\* ---- BTree::BTree -------------------------------------------------------
\* (variant: t is order / 2, rounded down)
MinSizeOf_floor(order_) == order_ \div 2

MinSizeOf(order_) == (order_ + 1) \div 2

\* (variant: min_keys is t - 1 with t rounded down)
MinKeysOf_floor(order_) == order_ \div 2 - 1

MinKeysOf(order_) == MinSizeOf(order_) - 1

Init ==
    /\ order \in Orders
    /\ min_size = MinSizeOf(order)
    /\ min_keys = MinKeysOf(order)
    /\ root = BNode(TRUE)
    /\ err = NoErr
    /\ lastOp = [op |-> "construct", val |-> 0, ret |-> TRUE]
    /\ ref = [v \in Vals |-> 0]
    /\ pc = 0
    /\ NoOthers

\* ---- BTree::insert ------------------------------------------------------
\* (variant: a value the tree holds is not stored a second time)
insertRoot_noDuplicate(r, val) ==
    IF findVal(r, val) THEN [err |-> NoErr, node |-> r]
    ELSE IF Len(r.keys) = order - 1
    THEN LET s == splitSibling(r) IN
         insertVal([BNode(FALSE) EXCEPT
                      !.keys         = <<s.midVal>>,
                      !.keys_storage = TRUE,
                      !.childrens    = <<s.node, s.sibling>>], val)
    ELSE insertVal(r, val)

\* (variant: a full root is not split first)
insertRoot_noRootSplit(r, val) == insertVal(r, val)

insertRoot(r, val) ==
    IF Len(r.keys) = order - 1
    THEN LET s == splitSibling(r) IN
         IF s.err # NoErr THEN [err |-> s.err, node |-> r]
         ELSE insertVal([BNode(FALSE) EXCEPT
                           !.keys         = <<s.midVal>>,
                           !.keys_storage = TRUE,
                           !.childrens    = <<s.node, s.sibling>>], val)
    ELSE insertVal(r, val)

insert(val) ==
    /\ err # ErrCrash
    /\ \E r \in {insertRoot(root, val)} :
         /\ root' = r.node
         /\ err' = r.err
         /\ ref' = IF r.err = NoErr THEN [ref EXCEPT ![val] = @ + 1] ELSE ref
    /\ lastOp' = [op |-> "insert", val |-> val, ret |-> TRUE]
    /\ UNCHANGED <<order, min_keys, min_size>>

\* ---- BTree::find --------------------------------------------------------
\* (variant: find splits a full root on its way down, as insert does)
find_splitsRoot(val) ==
    /\ err # ErrCrash
    /\ lastOp' = [op |-> "find", val |-> val, ret |-> findVal(root, val)]
    /\ err' = NoErr
    /\ root' = IF Len(root.keys) = order - 1
               THEN LET s == splitSibling(root) IN
                    [BNode(FALSE) EXCEPT !.keys         = <<s.midVal>>,
                                         !.keys_storage = TRUE,
                                         !.childrens    = <<s.node, s.sibling>>]
               ELSE root
    /\ UNCHANGED <<order, min_keys, min_size, ref>>

find(val) ==
    /\ err # ErrCrash
    /\ lastOp' = [op |-> "find", val |-> val, ret |-> findVal(root, val)]
    /\ err' = NoErr
    /\ UNCHANGED <<order, min_keys, min_size, root, ref>>

\* ---- BTree::remove ------------------------------------------------------
\* (variant: a root left with no keys is not replaced by its child)
removeRoot_noCollapse(r, val, ub) ==
    IF ~findVal(r, val) THEN [err |-> NoErr, oob |-> FALSE, node |-> r]
    ELSE removeVal(r, val, ub)

\* (variant: removeVal runs without the findVal test)
removeRoot_noFind(r, val, ub) ==
    LET rv == removeVal(r, val, ub) IN
    IF rv.err # NoErr THEN rv
    ELSE [rv EXCEPT !.node = IF ~rv.node.is_leaf /\ rv.node.keys = <<>>
                             THEN rv.node.childrens[1]
                             ELSE rv.node]

removeRoot(r, val, ub) ==
    IF ~findVal(r, val) THEN [err |-> NoErr, oob |-> FALSE, node |-> r]
    ELSE LET rv == removeVal(r, val, ub) IN
         IF rv.err # NoErr THEN rv
         ELSE [rv EXCEPT !.node = IF ~rv.node.is_leaf /\ rv.node.keys = <<>>
                                  THEN rv.node.childrens[1]
                                  ELSE rv.node]

\* The outcomes of the call: one, unless it reads out of bounds next to a
\* buffer (the run with ub = Crash stops at the first such read).
\* A crash ends the process: the tree is left as it was and no operation
\* follows.  A thrown exception leaves the tree as the throw found it.
remove(val) ==
    /\ err # ErrCrash
    /\ \E r0 \in {removeRoot(root, val, Crash)} :
       \E ub \in (IF r0.oob THEN UBOutcomes ELSE {Crash}) :
       \E r \in {IF ub = Crash THEN r0 ELSE removeRoot(root, val, ub)} :
           /\ err' = r.err
           /\ root' = IF r.err = ErrCrash THEN root ELSE r.node
           /\ ref' = IF r.err = NoErr /\ ref[val] > 0
                     THEN [ref EXCEPT ![val] = @ - 1] ELSE ref
    /\ lastOp' = [op |-> "remove", val |-> val, ret |-> findVal(root, val)]
    /\ UNCHANGED <<order, min_keys, min_size>>

\* the calls on a tree of any order, up to MaxKeys keys
Next ==
    \E val \in Vals :
       \/ TotalKeys(root) < MaxKeys /\ insert(val) /\ UNCHANGED <<pc, others>>
       \/ find(val) /\ UNCHANGED <<pc, others>>
       \/ remove(val) /\ UNCHANGED <<pc, others>>

Spec == Init /\ [][Next]_vars

\* ---- trees of even order ---------------------------------------------------
\* The orders for which the split at (order - 1) / 2 gives two halves of
\* min_keys keys and more (4 is the order the command shell starts with),
\* explored up to MaxKeysEven keys, enough for a tree of three levels.
MaxKeysEven == 12

EvenOrders == {m \in MinOrder..(MaxOrder + 1) : m % 2 = 0}

InitEven ==
    /\ order \in EvenOrders
    /\ min_size = MinSizeOf(order)
    /\ min_keys = MinKeysOf(order)
    /\ root = BNode(TRUE)
    /\ err = NoErr
    /\ lastOp = [op |-> "construct", val |-> 0, ret |-> TRUE]
    /\ ref = [v \in Vals |-> 0]
    /\ pc = 0
    /\ NoOthers

NextEven ==
    \E val \in Vals :
       \/ TotalKeys(root) < MaxKeysEven /\ insert(val) /\ UNCHANGED <<pc, others>>
       \/ find(val) /\ UNCHANGED <<pc, others>>
       \/ remove(val) /\ UNCHANGED <<pc, others>>

SpecEven == InitEven /\ [][NextEven]_vars

\* ---- construction as a step -----------------------------------------------
\* The constructor taken as an operation of its own, for every order a
\* caller may pass.  Before it runs there is no tree: root is the null
\* pointer of a default unique_ptr.  The member initialiser stores order
\* before the test; a throw leaves no object behind, so nothing follows it.
ErrInvalidArg == "Order must be at least 3"

CtorOrders == 0..MaxOrder

InitCtor ==
    /\ order = 0
    /\ min_size = 0
    /\ min_keys = 0
    /\ root = NullNode
    /\ err = NoErr
    /\ lastOp = [op |-> "none", val |-> 0, ret |-> FALSE]
    /\ ref = [v \in Vals |-> 0]
    /\ pc = 0
    /\ NoOthers

\* (variant: the order is not tested)
construct_noCheck(order_) ==
    /\ lastOp.op = "none"
    /\ order' = order_
    /\ min_size' = MinSizeOf(order_)
    /\ min_keys' = MinKeysOf(order_)
    /\ root' = BNode(TRUE)
    /\ err' = NoErr
    /\ lastOp' = [op |-> "construct", val |-> 0, ret |-> TRUE]
    /\ UNCHANGED <<ref, pc, others>>

construct(order_) ==
    /\ lastOp.op = "none"
    /\ order' = order_
    /\ IF order_ < MinOrder
       THEN /\ err' = ErrInvalidArg
            /\ UNCHANGED <<min_size, min_keys, root>>
       ELSE /\ min_size' = MinSizeOf(order_)
            /\ min_keys' = MinKeysOf(order_)
            /\ root' = BNode(TRUE)
            /\ err' = NoErr
    /\ lastOp' = [op |-> "construct", val |-> 0, ret |-> order_ >= MinOrder]
    /\ UNCHANGED <<ref, pc, others>>

Constructed == lastOp.op # "none" /\ err # ErrInvalidArg

NextCtor ==
    \/ \E order_ \in CtorOrders : construct(order_)
    \/ Constructed /\ Next

SpecCtor == InitCtor /\ [][NextCtor]_vars

\* ---- main of btreeTest.cpp ----------------------------------------------
\* The tree of order 5 and the calls of the main, one per step, in order.
\* An exception is not caught there, so nothing follows a call that throws.
\* Between two calls the tree may be asked for any value of the script
\* (find leaves pc alone).
InitTest ==
    /\ order = TestOrder
    /\ min_size = MinSizeOf(TestOrder)
    /\ min_keys = MinKeysOf(TestOrder)
    /\ root = BNode(TRUE)
    /\ err = NoErr
    /\ lastOp = [op |-> "construct", val |-> 0, ret |-> TRUE]
    /\ ref = [v \in Vals \cup TestVals |-> 0]
    /\ pc = 0
    /\ NoOthers

testInsert ==
    /\ pc < Len(TestScript) /\ err = NoErr
    /\ TestScript[pc + 1].op = "insert"
    /\ insert(TestScript[pc + 1].val)
    /\ pc' = pc + 1
    /\ UNCHANGED others

testRemove ==
    /\ pc < Len(TestScript) /\ err = NoErr
    /\ TestScript[pc + 1].op = "remove"
    /\ remove(TestScript[pc + 1].val)
    /\ pc' = pc + 1
    /\ UNCHANGED others

testFind(val) ==
    /\ err = NoErr
    /\ find(val)
    /\ UNCHANGED <<pc, others>>

NextTest ==
    \/ testInsert
    \/ testRemove
    \/ \E val \in TestVals : testFind(val)

SpecTest == InitTest /\ [][NextTest]_vars

\* ---- the nodes by address: who owns whom -----------------------------------
\* The same functions once more, on the objects instead of the values.  hp
\* maps the address of every live BNode to [is_leaf, keys, childrens], where
\* childrens is the vector of unique_ptr slots: the address each slot owns,
\* 0 for a null slot (what std::move leaves behind).  A call takes the heap
\* and the raw pointer it is given and returns the heap it leaves.
HNode(is_leaf) == [is_leaf |-> is_leaf, keys |-> <<>>, childrens |-> <<>>]

\* make_unique: the address of the new object (the lowest one not in use)
Alloc(hp) ==
    CHOOSE a \in 1..(Cardinality(DOMAIN hp) + 1) :
       a \notin DOMAIN hp /\ \A b \in 1..(a - 1) : b \in DOMAIN hp

Store(hp, a, node) == [x \in DOMAIN hp \cup {a} |-> IF x = a THEN node ELSE hp[x]]

\* ~BNode through a unique_ptr: the object and all that its slots still own
RECURSIVE Owned(_, _)
Owned(hp, a) ==
    {a} \cup UNION {Owned(hp, hp[a].childrens[i]) :
                       i \in {j \in 1..Len(hp[a].childrens) : hp[a].childrens[j] # 0}}

Destroy(hp, a) == [x \in DOMAIN hp \ Owned(hp, a) |-> hp[x]]

\* a range of slots after std::make_move_iterator has passed over it
MovedFrom(slots, from, to) ==
    [i \in 1..Len(slots) |-> IF from <= i /\ i <= to THEN 0 ELSE slots[i]]

h_keyIndex(hp, node, val) == keyScan(hp[node].keys, val, 0)

RECURSIVE h_findVal(_, _, _)
h_findVal(hp, node, val) ==
    LET idx == h_keyIndex(hp, node, val) IN
    IF idx < Len(hp[node].keys) /\ hp[node].keys[idx + 1] = val THEN TRUE
    ELSE IF hp[node].is_leaf THEN FALSE
    ELSE h_findVal(hp, hp[node].childrens[idx + 1], val)

\* splitSibling: the children from mid + 1 on are moved to the new sibling,
\* then the slots they were moved out of are erased
h_splitSibling(hp, node) ==
    LET n == hp[node] IN
    IF Len(n.keys) # order - 1
    THEN [err |-> ErrSplit, hp |-> hp, sibling |-> 0, midVal |-> 0]
    ELSE LET newSibling == Alloc(hp)
             mid   == splitMid
             nk    == Len(n.keys)
             nc    == Len(n.childrens)
             sib   == [HNode(n.is_leaf) EXCEPT
                         !.keys      = SubSeq(n.keys, mid + 2, nk),
                         !.childrens = IF n.is_leaf THEN <<>>
                                       ELSE SubSeq(n.childrens, mid + 2, nc)]
             node1 == [n EXCEPT
                         !.keys      = SubSeq(@, 1, mid),
                         !.childrens = IF n.is_leaf THEN @
                                       ELSE SubSeq(MovedFrom(@, mid + 2, nc), 1, mid + 1)]
         IN [err     |-> NoErr,
             hp      |-> Store(Store(hp, node, node1), newSibling, sib),
             sibling |-> newSibling,
             midVal  |-> n.keys[mid + 1]]

h_splitChild(hp, node, index) ==
    LET s == h_splitSibling(hp, hp[node].childrens[index + 1]) IN
    IF s.err # NoErr THEN [err |-> s.err, hp |-> hp]
    ELSE [err |-> NoErr,
          hp  |-> Store(s.hp, node,
                        [s.hp[node] EXCEPT
                           !.childrens = InsertAt(@, index + 1, s.sibling),
                           !.keys      = InsertAt(@, index, s.midVal)])]

RECURSIVE h_insertVal(_, _, _)
h_insertVal(hp, node, val) ==
    LET idx == h_keyIndex(hp, node, val) IN
    IF hp[node].is_leaf
    THEN IF Len(hp[node].keys) >= order - 1
         THEN [err |-> ErrFullLeaf, hp |-> hp]
         ELSE [err |-> NoErr,
               hp  |-> Store(hp, node, [hp[node] EXCEPT !.keys = InsertAt(@, idx, val)])]
    ELSE LET full == Len(hp[hp[node].childrens[idx + 1]].keys) = order - 1
             sc   == IF full THEN h_splitChild(hp, node, idx) ELSE [err |-> NoErr, hp |-> hp]
         IN IF sc.err # NoErr THEN sc
            ELSE LET idx1 == IF full THEN h_keyIndex(sc.hp, node, val) ELSE idx
                 IN h_insertVal(sc.hp, sc.hp[node].childrens[idx1 + 1], val)

\* BTree::insert: root is the pointer BTree::root holds
h_insert(hp, root_, val) ==
    IF Len(hp[root_].keys) = order - 1
    THEN LET newRoot == Alloc(hp)
             s       == h_splitSibling(Store(hp, newRoot, HNode(FALSE)), root_)
         IN IF s.err # NoErr THEN [err |-> s.err, hp |-> hp, root |-> root_]
            ELSE LET r == h_insertVal(Store(s.hp, newRoot,
                                            [HNode(FALSE) EXCEPT
                                               !.keys      = <<s.midVal>>,
                                               !.childrens = <<root_, s.sibling>>]),
                                      newRoot, val)
                 IN [err |-> r.err, hp |-> r.hp, root |-> newRoot]
    ELSE LET r == h_insertVal(hp, root_, val) IN
         [err |-> r.err, hp |-> r.hp, root |-> root_]

\* mergeSiblings: the keys of the right child are copied, its children are
\* moved, and erasing its slot destroys it with whatever it still owns
h_mergeSiblings(hp, node, idx) ==
    LET n      == hp[node]
        key    == n.keys[idx + 1]
        l      == n.childrens[idx + 1]
        r      == n.childrens[idx + 2]
        left1  == [hp[l] EXCEPT
                     !.keys      = (@ \o <<key>>) \o hp[r].keys,
                     !.childrens = IF hp[l].is_leaf THEN @ ELSE @ \o hp[r].childrens]
        right1 == [hp[r] EXCEPT
                     !.childrens = IF hp[l].is_leaf THEN @ ELSE MovedFrom(@, 1, Len(@))]
        node1  == [n EXCEPT !.keys = EraseAt(@, idx), !.childrens = EraseAt(@, idx + 1)]
    IN Destroy(Store(Store(Store(hp, l, left1), r, right1), node, node1), r)

\* (variant: the slot the child was moved out of is not erased)
h_borrowFromRight_noErase(hp, node, idx) ==
    LET n      == hp[node]
        l      == n.childrens[idx + 1]
        r      == n.childrens[idx + 2]
        left1  == [hp[l] EXCEPT
                     !.keys      = Append(@, n.keys[idx + 1]),
                     !.childrens = IF hp[l].is_leaf THEN @
                                   ELSE Append(@, Front(hp[r].childrens))]
        right1 == [hp[r] EXCEPT
                     !.keys      = Tail(@),
                     !.childrens = IF hp[l].is_leaf THEN @ ELSE MovedFrom(@, 1, 1)]
        node1  == [n EXCEPT !.keys[idx + 1] = Front(hp[r].keys)]
    IN Store(Store(Store(hp, l, left1), r, right1), node, node1)

h_borrowFromRight(hp, node, idx) ==
    LET n      == hp[node]
        l      == n.childrens[idx + 1]
        r      == n.childrens[idx + 2]
        left1  == [hp[l] EXCEPT
                     !.keys      = Append(@, n.keys[idx + 1]),
                     !.childrens = IF hp[l].is_leaf THEN @
                                   ELSE Append(@, Front(hp[r].childrens))]
        right1 == [hp[r] EXCEPT
                     !.keys      = Tail(@),
                     !.childrens = IF hp[l].is_leaf THEN @ ELSE Tail(MovedFrom(@, 1, 1))]
        node1  == [n EXCEPT !.keys[idx + 1] = Front(hp[r].keys)]
    IN Store(Store(Store(hp, l, left1), r, right1), node, node1)

h_borrowFromLeft(hp, node, idx) ==
    LET n      == hp[node]
        l      == n.childrens[idx]
        r      == n.childrens[idx + 1]
        right1 == [hp[r] EXCEPT
                     !.keys      = <<n.keys[idx]>> \o @,
                     !.childrens = IF hp[r].is_leaf THEN @
                                   ELSE <<Back(hp[l].childrens)>> \o @]
        left1  == [hp[l] EXCEPT
                     !.keys      = PopBack(@),
                     !.childrens = IF hp[r].is_leaf THEN @
                                   ELSE PopBack(MovedFrom(@, Len(@), Len(@)))]
        node1  == [n EXCEPT !.keys[idx] = Back(hp[l].keys)]
    IN Store(Store(Store(hp, l, left1), r, right1), node, node1)

h_fixChild(hp, node, idx) ==
    LET n  == hp[node]
        nc == Len(n.childrens)
    IN IF Len(hp[n.childrens[idx + 1]].keys) >= min_keys
       THEN [err |-> NoErr, hp |-> hp]
       ELSE IF idx > 0 /\ Len(hp[n.childrens[idx]].keys) > min_keys
       THEN [err |-> NoErr, hp |-> h_borrowFromLeft(hp, node, idx)]
       ELSE IF idx < nc - 1 /\ Len(hp[n.childrens[idx + 2]].keys) > min_keys
       THEN [err |-> NoErr, hp |-> h_borrowFromRight(hp, node, idx)]
       ELSE LET leftIdx == IF idx < nc - 1 THEN idx ELSE idx - 1 IN
            IF leftIdx < 0
            THEN [err |-> ErrCrash, hp |-> hp]
            ELSE [err |-> NoErr, hp |-> h_mergeSiblings(hp, node, leftIdx)]

\* findSuc / findPred: the key read, NullDeref from a leaf without keys
RECURSIVE h_findSuc(_, _)
h_findSuc(hp, node) ==
    IF ~hp[node].is_leaf THEN h_findSuc(hp, hp[node].childrens[1])
    ELSE IF Len(hp[node].keys) = 0 THEN NullDeref ELSE hp[node].keys[1]

RECURSIVE h_findPred(_, _)
h_findPred(hp, node) ==
    IF ~hp[node].is_leaf
    THEN h_findPred(hp, hp[node].childrens[Len(hp[node].keys) + 1])
    ELSE IF Len(hp[node].keys) = 0 THEN NullDeref
    ELSE hp[node].keys[Len(hp[node].keys)]

RECURSIVE h_removeVal(_, _, _)
h_removeVal(hp, node, val) ==
    LET n   == hp[node]
        idx == h_keyIndex(hp, node, val)
    IN IF n.is_leaf
       THEN [err |-> NoErr,
             hp  |-> IF idx < Len(n.keys) /\ n.keys[idx + 1] = val
                     THEN Store(hp, node, [n EXCEPT !.keys = EraseAt(@, idx)])
                     ELSE hp]
       ELSE IF idx < Len(n.keys) /\ n.keys[idx + 1] = val
       THEN LET usePred == Len(hp[n.childrens[idx + 1]].keys) > min_keys
                useSuc  == ~usePred /\ Len(hp[n.childrens[idx + 2]].keys) > min_keys
                nextValToRemove ==
                           IF usePred THEN h_findPred(hp, n.childrens[idx + 1])
                           ELSE IF useSuc THEN h_findSuc(hp, n.childrens[idx + 2])
                           ELSE val
                victim  == IF useSuc THEN idx + 1 ELSE idx
                hp1     == IF usePred \/ useSuc
                           THEN Store(hp, node, [n EXCEPT !.keys[idx + 1] = nextValToRemove])
                           ELSE h_mergeSiblings(hp, node, idx)
            IN IF nextValToRemove = NullDeref THEN [err |-> ErrCrash, hp |-> hp]
               ELSE LET r == h_removeVal(hp1, hp1[node].childrens[victim + 1], nextValToRemove)
                    IN IF r.err # NoErr THEN r ELSE h_fixChild(r.hp, node, victim)
       ELSE LET r == h_removeVal(hp, n.childrens[idx + 1], val)
            IN IF r.err # NoErr THEN r ELSE h_fixChild(r.hp, node, idx)

\* BTree::remove; root = std::move(root->childrens[0]) takes the child out
\* of its slot, then destroys the old root with whatever it still owns
h_remove(hp, root_, val) ==
    IF ~h_findVal(hp, root_, val) THEN [err |-> NoErr, hp |-> hp, root |-> root_]
    ELSE LET r == h_removeVal(hp, root_, val) IN
         IF r.err # NoErr THEN [err |-> r.err, hp |-> r.hp, root |-> root_]
         ELSE IF ~r.hp[root_].is_leaf /\ r.hp[root_].keys = <<>>
         THEN [err  |-> NoErr,
               hp   |-> Destroy(Store(r.hp, root_,
                                      [r.hp[root_] EXCEPT !.childrens = MovedFrom(@, 1, 1)]),
                                root_),
               root |-> r.hp[root_].childrens[1]]
         ELSE [err |-> NoErr, hp |-> r.hp, root |-> root_]

\* ---- the objects of a tree ---------------------------------------------------
\* The code never looks at the value of an address, so the objects of a tree
\* are taken at the addresses 1, 2, ... in the order root, first child and
\* its subtree, second child and its subtree, ...: every node is an object
\* of its own, held by the slot of its parent, the root by BTree::root.
RECURSIVE Flatten(_)
Flatten(ss) == IF ss = <<>> THEN <<>> ELSE Head(ss) \o Flatten(Tail(ss))

RECURSIVE ObjectsAt(_, _)
RECURSIVE ObjectsFrom(_, _, _)
\* the objects of the subtrees kids[i], kids[i + 1], ..., the first of them
\* placed at address a, with the addresses the slots of their parent hold
ObjectsFrom(kids, i, a) ==
    IF i > Len(kids) THEN [objs |-> <<>>, slots |-> <<>>]
    ELSE LET o == ObjectsAt(kids[i], a) IN
         LET rest == ObjectsFrom(kids, i + 1, a + Len(o)) IN
         [objs |-> o \o rest.objs, slots |-> <<a>> \o rest.slots]

\* the objects of the subtree of node, the node itself at address a
ObjectsAt(node, a) ==
    LET ks == ObjectsFrom(node.childrens, 1, a + 1) IN
    <<[is_leaf |-> node.is_leaf, keys |-> node.keys, childrens |-> ks.slots]>> \o ks.objs

RootPtr == 1

\* the heap: address |-> object, for the addresses 1, 2, ...
HeapOf(node) == ObjectsAt(node, RootPtr)

\* the addresses the slots of the object at a hold, null slots left out
SlotsOf(hp, a) == {hp[a].childrens[i] : i \in 1..Len(hp[a].childrens)} \ {0}

\* the addresses reached from a through the slots, root first, each as often
\* as a slot leads to it (a null slot and a slot on a dead object included)
RECURSIVE Visit(_, _)
Visit(hp, a) ==
    IF a \notin DOMAIN hp THEN <<a>>
    ELSE <<a>> \o Flatten([i \in 1..Len(hp[a].childrens) |-> Visit(hp, hp[a].childrens[i])])

\* the objects and the tree are the same tree: flags, keys and children
RECURSIVE SameTree(_, _, _)
SameTree(hp, a, node) ==
    /\ a \in DOMAIN hp
    /\ hp[a].is_leaf = node.is_leaf
    /\ hp[a].keys = node.keys
    /\ Len(hp[a].childrens) = Len(node.childrens)
    /\ \A i \in 1..Len(node.childrens) : SameTree(hp, hp[a].childrens[i], node.childrens[i])

\* ---- BTreeInterface: the command shell -------------------------------------
\* The state when run() reads its first command: initTree(order) has built
\* the tree, for the order main was given (4 unless --order says otherwise;
\* main refuses an order below 3).  order stands for the field of the shell
\* and for the field of its tree: initTree sets both.
MaxShellKeys == 6    \* insert commands are explored while the tree holds fewer keys

InitShell ==
    /\ order \in Orders
    /\ min_size = MinSizeOf(order)
    /\ min_keys = MinKeysOf(order)
    /\ root = BNode(TRUE)
    /\ err = NoErr
    /\ lastOp = [op |-> "init", val |-> order, ret |-> TRUE]
    /\ ref = [v \in Vals |-> 0]
    /\ pc = 0
    /\ NoOthers

notShell == <<pc, avl_root, stack_s, stack_t>>

\* "insert <value>": tree_size++ follows tree->insert in the try block
insertValue(value) ==
    /\ insert(value)
    /\ tree_size' = IF err' = NoErr THEN tree_size + 1 ELSE tree_size
    /\ UNCHANGED notShell

\* (variant: tree_size is decremented without the find test before)
removeValue_noExistsTest(value) ==
    /\ remove(value)
    /\ tree_size' = IF err' = NoErr THEN tree_size - 1 ELSE tree_size
    /\ UNCHANGED notShell

\* "remove <value>": nothing is done unless tree->find(value); tree_size--
\* follows tree->remove in the try block (a crash ends the process)
removeValue(value) ==
    /\ remove(value)
    /\ tree_size' = IF findVal(root, value) /\ err' = NoErr
                    THEN tree_size - 1 ELSE tree_size
    /\ UNCHANGED notShell

\* "find <value>"
findValue(value) ==
    /\ find(value)
    /\ UNCHANGED <<tree_size, notShell>>

\* "init <order>": initTree runs if the order is 3 or more
initCommand(new_order) ==
    /\ err # ErrCrash
    /\ IF new_order >= MinOrder
       THEN /\ order' = new_order
            /\ min_size' = MinSizeOf(new_order)
            /\ min_keys' = MinKeysOf(new_order)
            /\ root' = BNode(TRUE)
            /\ tree_size' = 0
            /\ ref' = [v \in Vals |-> 0]
       ELSE UNCHANGED <<order, min_size, min_keys, root, tree_size, ref>>
    /\ err' = NoErr
    /\ lastOp' = [op |-> "init", val |-> new_order, ret |-> new_order >= MinOrder]
    /\ UNCHANGED notShell

\* "size": val is the number printed
sizeCommand ==
    /\ err # ErrCrash
    /\ err' = NoErr
    /\ lastOp' = [op |-> "size", val |-> tree_size, ret |-> TRUE]
    /\ UNCHANGED <<order, min_size, min_keys, root, tree_size, ref, notShell>>

\* processCommand, for the commands that read or change the tree
NextShell ==
    \/ \E value \in Vals :
          \/ TotalKeys(root) < MaxShellKeys /\ insertValue(value)
          \/ removeValue(value)
          \/ findValue(value)
    \/ \E new_order \in CtorOrders : initCommand(new_order)
    \/ sizeCommand

SpecShell == InitShell /\ [][NextShell]_vars

\* ---- AVLTree: the nodes ---------------------------------------------------
\* An AVLNode is [data, left, right, height]; a null child is NullNode.
AVLNode(value) == [data |-> value, left |-> NullNode, right |-> NullNode, height |-> 1]

Max2(a, b) == IF a >= b THEN a ELSE b

get_height(node) == IF node = NullNode THEN 0 ELSE node.height

get_balance(node) ==
    IF node = NullNode THEN 0 ELSE get_height(node.left) - get_height(node.right)

update_height(node) ==
    [node EXCEPT !.height = 1 + Max2(get_height(node.left), get_height(node.right))]

\* (variant: the subtree between the two nodes is not handed over)
rotate_right_keepsLeft(node) ==
    LET new_root == node.left
        this     == update_height(node)
    IN update_height([new_root EXCEPT !.right = this])

rotate_right(node) ==
    LET new_root == node.left
        this     == update_height([node EXCEPT !.left = new_root.right])
    IN update_height([new_root EXCEPT !.right = this])

rotate_left(node) ==
    LET new_root == node.right
        this     == update_height([node EXCEPT !.right = new_root.left])
    IN update_height([new_root EXCEPT !.left = this])

\* (variant: the height is updated but no rotation is made)
balance_noRotation(node) == update_height(node)

balance(node) ==
    LET this           == update_height(node)
        balance_factor == get_balance(this)
    IN IF balance_factor > 1
       THEN rotate_right(IF get_balance(this.left) < 0
                         THEN [this EXCEPT !.left = rotate_left(this.left)]
                         ELSE this)
       ELSE IF balance_factor < -1
       THEN rotate_left(IF get_balance(this.right) > 0
                        THEN [this EXCEPT !.right = rotate_right(this.right)]
                        ELSE this)
       ELSE this

\* AVLNode::insert
RECURSIVE AVLNode_insert(_, _)
AVLNode_insert(node, value) ==
    IF value < node.data
    THEN balance([node EXCEPT !.left = IF node.left = NullNode THEN AVLNode(value)
                                       ELSE AVLNode_insert(node.left, value)])
    ELSE balance([node EXCEPT !.right = IF node.right = NullNode THEN AVLNode(value)
                                        ELSE AVLNode_insert(node.right, value)])

\* AVLNode::find: the node found, or NullNode
RECURSIVE AVLNode_find(_, _)
AVLNode_find(node, val) ==
    IF node.data = val THEN node
    ELSE IF node.data > val /\ node.left # NullNode THEN AVLNode_find(node.left, val)
    ELSE IF node.data < val /\ node.right # NullNode THEN AVLNode_find(node.right, val)
    ELSE NullNode

\* AVLNode::inorder: the values in the order they are printed
RECURSIVE AVLNode_inorder(_)
AVLNode_inorder(node) ==
    (IF node.left # NullNode THEN AVLNode_inorder(node.left) ELSE <<>>)
    \o <<node.data>>
    \o (IF node.right # NullNode THEN AVLNode_inorder(node.right) ELSE <<>>)

\* ---- AVLTree: removal ------------------------------------------------------
\* find_next_node_l / find_next_node_r: the node found and the depth stored
\* through the pointer (the caller's 0 if the side is empty)
RECURSIVE walk_right(_, _)
walk_right(leaf, d) ==
    IF leaf.right # NullNode THEN walk_right(leaf.right, d + 1)
    ELSE [node |-> leaf, depth |-> d]

RECURSIVE walk_left(_, _)
walk_left(leaf, d) ==
    IF leaf.left # NullNode THEN walk_left(leaf.left, d + 1)
    ELSE [node |-> leaf, depth |-> d]

find_next_node_l(root_) ==
    IF root_.left = NullNode THEN [node |-> root_, depth |-> 0]
    ELSE walk_right(root_.left, 0)

find_next_node_r(root_) ==
    IF root_.right = NullNode THEN [node |-> root_, depth |-> 0]
    ELSE walk_left(root_.right, 0)

\* remove_item: thrown tells whether "val not found in the tree" was thrown;
\* node is the pointer returned, or after a throw the subtree as the throw
\* leaves it (the assignments and balance() calls on the way up are skipped,
\* a data field already overwritten stays overwritten).
RECURSIVE remove_item(_, _)
remove_item(root_, val) ==
    IF root_ = NullNode THEN [thrown |-> TRUE, node |-> NullNode]
    ELSE IF val < root_.data
    THEN LET r == remove_item(root_.left, val) IN
         IF r.thrown THEN [thrown |-> TRUE, node |-> [root_ EXCEPT !.left = r.node]]
         ELSE [thrown |-> FALSE, node |-> balance([root_ EXCEPT !.left = r.node])]
    ELSE IF val > root_.data
    THEN LET r == remove_item(root_.right, val) IN
         IF r.thrown THEN [thrown |-> TRUE, node |-> [root_ EXCEPT !.right = r.node]]
         ELSE [thrown |-> FALSE, node |-> balance([root_ EXCEPT !.right = r.node])]
    ELSE IF root_.left = NullNode /\ root_.right = NullNode
    THEN [thrown |-> FALSE, node |-> NullNode]
    ELSE IF root_.right = NullNode THEN [thrown |-> FALSE, node |-> root_.left]
    ELSE IF root_.left = NullNode THEN [thrown |-> FALSE, node |-> root_.right]
    ELSE LET next_l == find_next_node_l(root_)
             next_r == find_next_node_r(root_)
         IN IF next_l.depth > next_r.depth
            THEN LET root1 == [root_ EXCEPT !.data = next_l.node.data]
                     r     == remove_item(root1.left, root1.data)
                 IN IF r.thrown
                    THEN [thrown |-> TRUE, node |-> [root1 EXCEPT !.left = r.node]]
                    ELSE [thrown |-> FALSE, node |-> balance([root1 EXCEPT !.left = r.node])]
            ELSE LET root1 == [root_ EXCEPT !.data = next_r.node.data]
                     r     == remove_item(root1.right, root1.data)
                 IN IF r.thrown
                    THEN [thrown |-> TRUE, node |-> [root1 EXCEPT !.right = r.node]]
                    ELSE [thrown |-> FALSE, node |-> balance([root1 EXCEPT !.right = r.node])]

\* ---- AVLTree: the public operations ----------------------------------------
MaxAVLVal   == 4     \* values passed to the AVL tree are 1..MaxAVLVal
MaxAVLNodes == 7     \* insert is explored while the tree has fewer nodes

AVLVals == 1..MaxAVLVal

\* the nodes of a subtree
RECURSIVE AVLNodesOf(_)
AVLNodesOf(node) ==
    IF node = NullNode THEN {}
    ELSE {node} \cup AVLNodesOf(node.left) \cup AVLNodesOf(node.right)

RECURSIVE AVLSize(_)
AVLSize(node) ==
    IF node = NullNode THEN 0 ELSE 1 + AVLSize(node.left) + AVLSize(node.right)

\* no B-tree is constructed
NoBTree ==
    /\ order = 0 /\ min_size = 0 /\ min_keys = 0
    /\ root = NullNode
    /\ pc = 0

InitAVL ==
    /\ NoBTree
    /\ err = NoErr
    /\ lastOp = [op |-> "construct", val |-> 0, ret |-> TRUE]
    /\ ref = [v \in AVLVals |-> 0]
    /\ tree_size = 0
    /\ avl_root = NullNode
    /\ stack_s = EmptyStack
    /\ stack_t = EmptyStack

AVLTree_insert(value) ==
    /\ avl_root' = IF avl_root = NullNode THEN AVLNode(value)
                   ELSE AVLNode_insert(avl_root, value)
    /\ ref' = [ref EXCEPT ![value] = @ + 1]
    /\ lastOp' = [op |-> "insert", val |-> value, ret |-> TRUE]
    /\ UNCHANGED <<order, min_keys, min_size, root, err, pc, tree_size, stack_s, stack_t>>

AVLTree_remove(val) ==
    /\ \E r \in {remove_item(avl_root, val)} :
          /\ avl_root' = r.node
          /\ ref' = IF r.thrown THEN ref ELSE [ref EXCEPT ![val] = @ - 1]
          /\ lastOp' = [op |-> "remove", val |-> val, ret |-> ~r.thrown]
    /\ UNCHANGED <<order, min_keys, min_size, root, err, pc, tree_size, stack_s, stack_t>>

exist_in_tree(val) ==
    /\ lastOp' = [op |-> "exist_in_tree", val |-> val,
                  ret |-> IF avl_root = NullNode THEN FALSE
                          ELSE AVLNode_find(avl_root, val) # NullNode]
    /\ UNCHANGED <<order, min_keys, min_size, root, err, pc, ref, others>>

NextAVL ==
    \E val \in AVLVals :
       \/ AVLSize(avl_root) < MaxAVLNodes /\ AVLTree_insert(val)
       \/ AVLTree_remove(val)
       \/ exist_in_tree(val)

SpecAVL == InitAVL /\ [][NextAVL]_vars

\* what AVLTree::inorder prints
AVLTree_inorder == IF avl_root = NullNode THEN <<>> ELSE AVLNode_inorder(avl_root)

\* ---- Stack ------------------------------------------------------------------
\* A Stack is [top, size]: top is the list of the data from the top node
\* down (the chain of the next pointers), size the counter.
ErrEmptyStack == "empty stack"

MaxStackSize == 4    \* push and merge_stack are explored up to this size

push(stack, data) == [top |-> <<data>> \o stack.top, size |-> stack.size + 1]

\* pop: thrown tells whether "empty stack" was thrown (nothing is changed
\* then); value is the value returned
pop(stack) ==
    IF stack.top = <<>> THEN [thrown |-> TRUE, stack |-> stack, value |-> 0]
    ELSE [thrown |-> FALSE,
          stack  |-> [top |-> Tail(stack.top), size |-> stack.size - 1],
          value  |-> Head(stack.top)]

pick(stack) ==
    IF stack.top = <<>> THEN [thrown |-> TRUE, value |-> 0]
    ELSE [thrown |-> FALSE, value |-> Head(stack.top)]

is_empty(stack) == stack.top = <<>>

\* while (!from.is_empty()) to.push(from.pop());
RECURSIVE pourInto(_, _)
pourInto(from, to) ==
    IF is_empty(from) THEN [from |-> from, to |-> to]
    ELSE pourInto(pop(from).stack, push(to, pop(from).value))

\* (variant: other is poured into this stack without the stack temp)
merge_stack_noTemp(this, other) ==
    LET p == pourInto(other, this) IN [this |-> p.to, other |-> p.from]

\* this.merge_stack(other), this and other two objects
merge_stack(this, other) ==
    LET temp == pourInto(other, EmptyStack)
        back == pourInto(temp.to, this)
    IN [this |-> back.to, other |-> temp.from]

InitStack ==
    /\ NoBTree
    /\ err = NoErr
    /\ lastOp = [op |-> "construct", val |-> 0, ret |-> TRUE]
    /\ ref = [v \in Vals |-> 0]
    /\ tree_size = 0
    /\ avl_root = NullNode
    /\ stack_s = EmptyStack
    /\ stack_t = EmptyStack

notStack == <<order, min_keys, min_size, root, pc, ref, tree_size, avl_root>>

s_push(data) ==
    /\ stack_s' = push(stack_s, data)
    /\ err' = NoErr
    /\ lastOp' = [op |-> "s.push", val |-> data, ret |-> TRUE]
    /\ UNCHANGED <<stack_t, notStack>>

t_push(data) ==
    /\ stack_t' = push(stack_t, data)
    /\ err' = NoErr
    /\ lastOp' = [op |-> "t.push", val |-> data, ret |-> TRUE]
    /\ UNCHANGED <<stack_s, notStack>>

s_pop ==
    /\ stack_s' = pop(stack_s).stack
    /\ err' = IF pop(stack_s).thrown THEN ErrEmptyStack ELSE NoErr
    /\ lastOp' = [op |-> "s.pop", val |-> pop(stack_s).value, ret |-> ~pop(stack_s).thrown]
    /\ UNCHANGED <<stack_t, notStack>>

t_pop ==
    /\ stack_t' = pop(stack_t).stack
    /\ err' = IF pop(stack_t).thrown THEN ErrEmptyStack ELSE NoErr
    /\ lastOp' = [op |-> "t.pop", val |-> pop(stack_t).value, ret |-> ~pop(stack_t).thrown]
    /\ UNCHANGED <<stack_s, notStack>>

\* s.merge_stack(t); val records how many elements t held
s_merge_stack_t ==
    /\ stack_s' = merge_stack(stack_s, stack_t).this
    /\ stack_t' = merge_stack(stack_s, stack_t).other
    /\ err' = NoErr
    /\ lastOp' = [op |-> "s.merge_stack(t)", val |-> Len(stack_t.top), ret |-> TRUE]
    /\ UNCHANGED notStack

NextStack ==
    \/ \E data \in Vals : stack_s.size < MaxStackSize /\ s_push(data)
    \/ \E data \in Vals : stack_t.size < MaxStackSize /\ t_push(data)
    \/ s_pop
    \/ t_pop
    \/ stack_s.size + stack_t.size <= MaxStackSize /\ s_merge_stack_t

SpecStack == InitStack /\ [][NextStack]_vars

\* ---- structure of a tree ------------------------------------------------
\* every node of the subtree, paired with whether it is the root of it
RECURSIVE NodesOf(_)
NodesOf(node) ==
    {node} \cup UNION {NodesOf(node.childrens[i]) : i \in 1..Len(node.childrens)}

NonRootNodes(r) == UNION {NodesOf(r.childrens[i]) : i \in 1..Len(r.childrens)}

\* the set of depths at which the leaves of the subtree lie
RECURSIVE LeafDepths(_)
LeafDepths(node) ==
    IF node.is_leaf THEN {0}
    ELSE {d + 1 : d \in UNION {LeafDepths(node.childrens[i]) : i \in 1..Len(node.childrens)}}

\* inorder traversal, as cpp print order of keys between children
RECURSIVE Inorder(_)
RECURSIVE InorderFrom(_, _)
InorderFrom(node, i) ==
    IF i > Len(node.childrens) /\ i > Len(node.keys) THEN <<>>
    ELSE (IF i <= Len(node.childrens) THEN Inorder(node.childrens[i]) ELSE <<>>)
         \o (IF i <= Len(node.keys) THEN <<node.keys[i]>> ELSE <<>>)
         \o InorderFrom(node, i + 1)
Inorder(node) == InorderFrom(node, 1)

IsSorted(s) == \A i \in 1..(Len(s) - 1) : s[i] <= s[i + 1]

\* the set of key values stored under node
RECURSIVE SubtreeKeys(_)
SubtreeKeys(node) ==
    {node.keys[i] : i \in 1..Len(node.keys)}
    \cup UNION {SubtreeKeys(node.childrens[i]) : i \in 1..Len(node.childrens)}

\* ---- the buffer of an empty leaf ----------------------------------------
\* An empty leaf below the root never owns a buffer: it is a sibling that
\* splitSibling created with no keys.  (A leaf emptied by removeVal is
\* refilled or discarded by the fixChild that follows.)  So the reads of
\* findPred / findSuc on an empty leaf go through a null pointer.
EmptyLeafHasNoBuffer ==
    \A n \in NonRootNodes(root) : (n.is_leaf /\ n.keys = <<>>) => ~n.keys_storage

\* ---- C1 -----------------------------------------------------------------
\* C1: after any sequence of insert and remove calls, every non-root node
\* holds at least min_keys = ceil(order / 2) - 1 keys.
C1_NonRootMinKeys ==
    \A n \in NonRootNodes(root) : Len(n.keys) >= (order + 1) \div 2 - 1

\* ---- C2 -----------------------------------------------------------------
\* C2: every node, the root included, holds at most order - 1 keys and at
\* most order children.
C2_MaxKeys ==
    \A n \in NodesOf(root) : Len(n.keys) <= order - 1 /\ Len(n.childrens) <= order

\* ---- C3 -----------------------------------------------------------------
\* C3: all leaves of the tree are at the same depth from the root.
C3_LeavesSameDepth ==
    Cardinality(LeafDepths(root)) = 1

\* a remove of a present value has completed on a tree of three levels
C3_Witness ==
    /\ lastOp.op = "remove" /\ lastOp.ret /\ err = NoErr
    /\ LeafDepths(root) = {2}

\* ---- C4 -----------------------------------------------------------------
\* C4: an internal node with k keys has exactly k + 1 children and a leaf
\* has no children.
C4_ChildCount ==
    \A n \in NodesOf(root) :
        IF n.is_leaf THEN Len(n.childrens) = 0
        ELSE Len(n.childrens) = Len(n.keys) + 1

\* a remove has completed and left an internal node below the root that
\* holds more than one key
C4_Witness ==
    /\ lastOp.op = "remove" /\ lastOp.ret /\ err = NoErr
    /\ \E n \in NonRootNodes(root) : ~n.is_leaf /\ Len(n.keys) >= 2

\* ---- C5 -----------------------------------------------------------------
\* C5: the keys of every node are sorted ascending, every key of
\* childrens[i] is <= keys[i] <= every key of childrens[i+1], and the
\* inorder traversal is non-decreasing.
C5_Ordered ==
    /\ \A n \in NodesOf(root) :
         /\ IsSorted(n.keys)
         /\ \A i \in 1..Len(n.keys) :
              /\ i <= Len(n.childrens) =>
                   \A k \in SubtreeKeys(n.childrens[i]) : k <= n.keys[i]
              /\ i + 1 <= Len(n.childrens) =>
                   \A k \in SubtreeKeys(n.childrens[i + 1]) : k >= n.keys[i]
    /\ IsSorted(Inorder(root))

\* a remove has completed on a tree of at least two levels that holds a
\* duplicate and two distinct values
C5_Witness ==
    /\ lastOp.op = "remove" /\ lastOp.ret /\ err = NoErr
    /\ ~root.is_leaf
    /\ \E v \in Vals : CountKey(root, v) >= 2
    /\ Cardinality(SubtreeKeys(root)) >= 2

\* ---- C6 -----------------------------------------------------------------
\* C6: find(v) is true exactly when v has multiplicity >= 1 in the reference
\* multiset (ref: +1 per insert(v), -1 per remove(v) of a present v); so it
\* is true right after insert(v) and false after a remove(v) of the last v.
C6_FindMatchesRef ==
    err # ErrCrash =>
       /\ \A v \in Vals : findVal(root, v) <=> ref[v] >= 1
       /\ lastOp.op = "insert" => findVal(root, lastOp.val)
       /\ (lastOp.op = "remove" /\ ref[lastOp.val] = 0) => ~findVal(root, lastOp.val)

\* the last occurrence of a value has been removed from a tree of at least
\* two levels, and find reports it absent
C6_Witness ==
    /\ lastOp.op = "remove" /\ lastOp.ret /\ err = NoErr
    /\ ~root.is_leaf
    /\ ref[lastOp.val] = 0 /\ ~findVal(root, lastOp.val)

\* ---- C7 -----------------------------------------------------------------
\* C7: a remove(v) of a value the tree contains removes exactly one
\* occurrence of v and changes the count of no other key.
C7_RemoveOne ==
    [][(lastOp'.op = "remove" /\ lastOp'.ret) =>
          \A k \in AllVals :
             CountKey(root', k) = CountKey(root, k) - (IF k = lastOp'.val THEN 1 ELSE 0)]_vars

\* ---- C8 -----------------------------------------------------------------
\* C8: a remove(v) of a value the tree does not contain leaves the whole
\* tree unchanged.
C8_RemoveAbsentNoop ==
    [][(lastOp'.op = "remove" /\ ~lastOp'.ret) => (root' = root /\ err' = NoErr)]_vars

\* a remove of an absent value has returned on a tree of at least two levels
C8_Witness ==
    /\ lastOp.op = "remove" /\ ~lastOp.ret
    /\ ~root.is_leaf /\ TotalKeys(root) >= 3

\* ---- C9 -----------------------------------------------------------------
\* C9: insert(v) stores exactly one more occurrence of v and changes the
\* count of no other key, whether or not v is already present.
C9_InsertOne ==
    [][lastOp'.op = "insert" =>
          \A k \in AllVals :
             CountKey(root', k) = CountKey(root, k) + (IF k = lastOp'.val THEN 1 ELSE 0)]_vars

\* a value already present has been inserted into a tree of three levels
C9_Witness ==
    /\ lastOp.op = "insert" /\ err = NoErr
    /\ CountKey(root, lastOp.val) >= 2
    /\ LeafDepths(root) = {2}

\* ---- C10 ----------------------------------------------------------------
\* C10: no sequence of insert and remove calls raises an internal-invariant
\* error; every insert runs to completion.
C10_NoInternalError ==
    /\ err \notin {ErrSplit, ErrFullLeaf}
    /\ lastOp.op = "insert" => err = NoErr

\* an insert has completed that met a full root and split it
C10_Witness ==
    /\ lastOp.op = "insert" /\ err = NoErr
    /\ ~root.is_leaf /\ Len(root.keys) = 1
    /\ TotalKeys(root) = order

\* ---- C11 ----------------------------------------------------------------
\* C11: after every insert or remove that completes, the root is not an
\* internal node with zero keys, and a tree that holds at least one key has
\* a root with at least one key.
C11_RootNotDegenerate ==
    err # ErrCrash =>
       /\ ~(~root.is_leaf /\ root.keys = <<>>)
       /\ TotalKeys(root) >= 1 => Len(root.keys) >= 1

\* a remove has emptied the root of its last key and the child that took
\* its place holds the keys that are left
C11_Witness ==
    /\ lastOp.op = "remove" /\ lastOp.ret /\ err = NoErr
    /\ root.is_leaf /\ TotalKeys(root) >= order - 1

\* ---- C12 ----------------------------------------------------------------
\* C12: construction with an order below 3 fails with an invalid-argument
\* error and no root node has been created; construction with an order of
\* 3 or more succeeds and gives a tree whose root is one empty leaf.
C12_ConstructChecksOrder ==
    /\ order < 3 => root = NullNode
    /\ lastOp.op = "construct" =>
          IF order < 3
          THEN err = ErrInvalidArg /\ ~lastOp.ret
          ELSE /\ err = NoErr /\ lastOp.ret
               /\ root # NullNode
               /\ root.is_leaf /\ root.keys = <<>> /\ root.childrens = <<>>

\* the constructor has been called with order 2 and has thrown
C12_Witness ==
    /\ lastOp.op = "construct" /\ order = 2
    /\ err = ErrInvalidArg

\* ---- C13 ----------------------------------------------------------------
\* C13: find(v) changes nothing of the tree: the root, and with it the
\* keys and children of every node, is the same before and after the call,
\* and a second find(v) returns what the first returned.
C13_FindPure ==
    [][lastOp'.op = "find" =>
          /\ root' = root
          /\ <<order', min_keys', min_size'>> = <<order, min_keys, min_size>>
          /\ findVal(root', lastOp'.val) = lastOp'.ret]_vars

\* find has returned true on a tree of three levels
C13_Witness ==
    /\ lastOp.op = "find" /\ lastOp.ret
    /\ LeafDepths(root) = {2}

\* ---- C14 ----------------------------------------------------------------
\* C14: in the run of the test main on a tree of order 5: once the fourteen
\* values are inserted find(34) is true; once 6, 17, 10 and 2 are removed
\* two occurrences of 2 remain, find(2) is true and find(6) is false;
\* remove(100) leaves the tree as it was; once 3, 4 and 15 are inserted all
\* three are found and all leaves are at one depth.
C14_Scenario ==
    [][LET inserted == Len(TestValues)
           removed  == inserted + 4
           absent   == removed + 1
           asked(v) == lastOp'.op = "find" /\ lastOp'.val = v
       IN /\ err' = NoErr
          /\ pc' = inserted =>
                /\ findVal(root', 34)
                /\ asked(34) => lastOp'.ret
          /\ pc' = removed =>
                /\ CountKey(root', 2) = 2
                /\ findVal(root', 2) /\ ~findVal(root', 6)
                /\ asked(2) => lastOp'.ret
                /\ asked(6) => ~lastOp'.ret
          /\ (pc = removed /\ pc' = absent) => root' = root
          /\ pc' = Len(TestScript) =>
                /\ \A v \in {3, 4, 15} : findVal(root', v) /\ (asked(v) => lastOp'.ret)
                /\ Cardinality(LeafDepths(root')) = 1]_vars

\* the main has made its last call and find(15) has returned true
C14_Witness ==
    /\ pc = Len(TestScript)
    /\ lastOp = [op |-> "find", val |-> 15, ret |-> TRUE]
    /\ CountKey(root, 2) = 2

\* ---- C15 ----------------------------------------------------------------
\* C15: construction with an order m >= 3 sets min_keys to ceil(m / 2) - 1,
\* and order, min_keys and min_size keep the values construction gave them
\* across every insert, find and remove.
C15_ParamsFixed ==
    [][Constructed' =>
          /\ 2 * (min_keys' + 1) \in {order', order' + 1}
          /\ Constructed =>
                <<order', min_keys', min_size'>> = <<order, min_keys, min_size>>]_vars

\* a tree constructed with order 5 has grown to two levels and a remove has
\* completed on it
C15_Witness ==
    /\ lastOp.op = "remove" /\ lastOp.ret /\ err = NoErr
    /\ order = 5 /\ ~root.is_leaf

\* ---- C16 ----------------------------------------------------------------
\* C16 (as stated): a tree constructed with order 5 has min_keys = 1.
C16_Order5MinKeysOne ==
    order = 5 => min_keys = 1

\* C16 (amended): a tree constructed with order 5 has min_keys = 2: fixChild
\* leaves a child alone exactly when it holds at least 2 keys, and borrows
\* only from a sibling that holds more than 2 keys.
C16_Order5MinKeysTwo ==
    order = 5 =>
       /\ min_keys = 2
       /\ \A n \in NodesOf(root) : \A idx \in 0..(Len(n.childrens) - 1) :
             LET f == fixChild(n, idx) IN
             /\ f.err = NoErr
             /\ f.node = n <=> Len(n.childrens[idx + 1].keys) >= 2
             /\ (f.node # n /\ Len(f.node.childrens) = Len(n.childrens)) =>
                   \E j \in {idx - 1, idx + 1} :
                      /\ j >= 0 /\ j < Len(n.childrens)
                      /\ Len(n.childrens[j + 1].keys) > 2

\* a remove has completed on a tree of order 5 that has a child with one
\* key next to a sibling with three
C16_Witness ==
    /\ order = 5
    /\ lastOp.op = "remove" /\ lastOp.ret /\ err = NoErr
    /\ ~root.is_leaf
    /\ \E i, j \in 1..Len(root.childrens) :
          /\ j \in {i - 1, i + 1}
          /\ Len(root.childrens[i].keys) = 1
          /\ Len(root.childrens[j].keys) = 3

\* ---- the descent of insert ----------------------------------------------
\* the root insertVal is called on: BTree::insert has split a full root
splitRoot(r) ==
    IF Len(r.keys) = order - 1
    THEN LET s == splitSibling(r) IN
         [BNode(FALSE) EXCEPT !.keys         = <<s.midVal>>,
                              !.keys_storage = TRUE,
                              !.childrens    = <<s.node, s.sibling>>]
    ELSE r

\* an internal node as insertVal has it when it recurses (a full child has
\* been split), and the index of the child it recurses into
descend(node, val) ==
    LET idx  == keyIndex(node, val)
        full == Len(node.childrens[idx + 1].keys) = order - 1
        sc   == IF full THEN splitChild(node, idx).node ELSE node
    IN [node |-> sc, idx |-> IF full THEN keyIndex(sc, val) ELSE idx]

\* the position (from 1) of the first key equal to val, 0 if there is none
FirstEq(keys, val) ==
    IF \E j \in 1..Len(keys) : keys[j] = val
    THEN CHOOSE j \in 1..Len(keys) : keys[j] = val /\ \A k \in 1..(j - 1) : keys[k] # val
    ELSE 0

\* At every internal node on the way of insertVal(node, val) that holds a
\* key equal to val, first at position j: the call adds the new val under
\* the child left of that key (side = 0) or right of it (side = 1), and
\* leaves the keys of the node and all its other children as they were.
RECURSIVE DupLands(_, _, _)
DupLands(node, val, side) ==
    node.is_leaf \/
    LET d   == descend(node, val)
        res == insertVal(node, val).node
        j   == FirstEq(d.node.keys, val)
    IN /\ j > 0 =>
            /\ res.keys = d.node.keys
            /\ \A c \in 1..Len(res.childrens) :
                  IF c = j + side
                  THEN CountKey(res.childrens[c], val) = CountKey(d.node.childrens[c], val) + 1
                  ELSE res.childrens[c] = d.node.childrens[c]
       /\ DupLands(d.node.childrens[d.idx + 1], val, side)

\* ---- C17 ----------------------------------------------------------------
\* C17 (as stated): when insert(v) comes to an internal node that holds a
\* key equal to v, the new v is placed in the child right of that key
\* (children[i+1]), never in children[i].
C17_DupGoesRight ==
    [][lastOp'.op = "insert" =>
          /\ root' = insertVal(splitRoot(root), lastOp'.val).node
          /\ DupLands(splitRoot(root), lastOp'.val, 1)]_vars

\* C17 (amended): when insert(v) comes to an internal node that holds a key
\* equal to v, first at index i, the new v is placed in the child left of
\* that key (children[i], i = keyIndex(node, v)), never in children[i+1].
C17_DupGoesLeft ==
    [][lastOp'.op = "insert" =>
          /\ root' = insertVal(splitRoot(root), lastOp'.val).node
          /\ DupLands(splitRoot(root), lastOp'.val, 0)]_vars

\* insert(v) has completed on a tree whose root holds v: the child left of
\* that key holds a v and the child right of it holds none
C17_Witness ==
    /\ lastOp.op = "insert" /\ err = NoErr
    /\ ~root.is_leaf
    /\ LET j == FirstEq(root.keys, lastOp.val) IN
         /\ j > 0
         /\ CountKey(root.childrens[j], lastOp.val) >= 1
         /\ CountKey(root.childrens[j + 1], lastOp.val) = 0

\* the nodes insertVal is called on in the course of insertVal(node, val),
\* each as it is at the call
RECURSIVE insertValArgs(_, _)
insertValArgs(node, val) ==
    IF node.is_leaf THEN {node}
    ELSE LET d == descend(node, val) IN
         {node} \cup insertValArgs(d.node.childrens[d.idx + 1], val)

\* ---- C18 ----------------------------------------------------------------
\* C18: every node insertVal is called on in the course of an insert (the
\* root once a full root is split, a child once a full child is split)
\* holds fewer than order - 1 keys.
C18_InsertValNotFull ==
    err # ErrCrash =>
       \A v \in Vals : \A n \in insertValArgs(splitRoot(root), v) :
          Len(n.keys) < order - 1

\* ---- the calls of remove -------------------------------------------------
\* The calls of findPred, findSuc and fixChild in the course of
\* removeVal(node, val), up to the first crash: each with the node it is
\* given, as it is at the call, and for fixChild the index.
RECURSIVE removeCalls(_, _)
removeCalls(node, val) ==
    LET idx == keyIndex(node, val) IN
    IF node.is_leaf THEN {}
    ELSE IF idx < Len(node.keys) /\ node.keys[idx + 1] = val
    THEN LET usePred == Len(node.childrens[idx + 1].keys) > min_keys
             useSuc  == ~usePred /\ Len(node.childrens[idx + 2].keys) > min_keys
             call    == IF usePred
                        THEN {[fn |-> "findPred", node |-> node.childrens[idx + 1], idx |-> idx]}
                        ELSE IF useSuc
                        THEN {[fn |-> "findSuc", node |-> node.childrens[idx + 2], idx |-> idx + 1]}
                        ELSE {}
             read    == IF usePred THEN findPred(node.childrens[idx + 1])
                        ELSE IF useSuc THEN findSuc(node.childrens[idx + 2])
                        ELSE val
             victim  == IF useSuc THEN idx + 1 ELSE idx
             node1   == IF usePred \/ useSuc
                        THEN [node EXCEPT !.keys[idx + 1] = read]
                        ELSE mergeSiblings(node, idx)
         IN IF read \in {NullDeref, OOB} THEN call
            ELSE LET r  == removeVal(node1.childrens[victim + 1], read, Crash)
                     n2 == [node1 EXCEPT !.childrens[victim + 1] = r.node]
                 IN call \cup removeCalls(node1.childrens[victim + 1], read)
                         \cup (IF r.err = NoErr
                               THEN {[fn |-> "fixChild", node |-> n2, idx |-> victim]}
                               ELSE {})
    ELSE LET r  == removeVal(node.childrens[idx + 1], val, Crash)
             n2 == [node EXCEPT !.childrens[idx + 1] = r.node]
         IN removeCalls(node.childrens[idx + 1], val)
            \cup (IF r.err = NoErr
                  THEN {[fn |-> "fixChild", node |-> n2, idx |-> idx]}
                  ELSE {})

\* the calls of remove(val) on the tree
removeCallsOf(val) == IF findVal(root, val) THEN removeCalls(root, val) ELSE {}

\* ---- C19 ----------------------------------------------------------------
\* C19: whenever remove calls findPred (findSuc) on a child subtree, the
\* leaf it comes to is not empty and the key returned is the largest
\* (smallest) key of that subtree.
C19_PredSucFromNonEmptyLeaf ==
    err # ErrCrash =>
       \A v \in Vals : \A c \in removeCallsOf(v) :
          /\ c.fn = "findPred" =>
                LET k == findPred(c.node) IN
                /\ k \notin {NullDeref, OOB}
                /\ k \in SubtreeKeys(c.node) /\ \A x \in SubtreeKeys(c.node) : x <= k
          /\ c.fn = "findSuc" =>
                LET k == findSuc(c.node) IN
                /\ k \notin {NullDeref, OOB}
                /\ k \in SubtreeKeys(c.node) /\ \A x \in SubtreeKeys(c.node) : x >= k

\* ---- C20 ----------------------------------------------------------------
\* C20: each time fixChild(node, idx) returns in the course of a remove, the
\* child that was recursed into (or the node it was merged into) holds at
\* least min_keys keys, and fixChild indexes no sibling or separator key
\* that does not exist.
C20_FixChildRestores ==
    err # ErrCrash =>
       \A v \in Vals : \A c \in removeCallsOf(v) :
          c.fn = "fixChild" =>
             LET nc      == Len(c.node.childrens)
                 f       == fixChild(c.node, c.idx)
                 leftIdx == IF c.idx < nc - 1 THEN c.idx ELSE c.idx - 1
                 fixed   == IF Len(f.node.childrens) = nc
                            THEN f.node.childrens[c.idx + 1]
                            ELSE f.node.childrens[leftIdx + 1]
             IN /\ f.err = NoErr
                /\ Len(fixed.keys) >= min_keys

\* ---- C21 ----------------------------------------------------------------
\* C21: splitSibling on a node with exactly order - 1 keys, with
\* mid = (order - 1) / 2, returns keys[mid] as the median, leaves the node
\* with keys[0..mid-1] (and children[0..mid] if internal) and gives the new
\* sibling keys[mid+1..] (and children[mid+1..] if internal) with the same
\* is_leaf flag, so that node keys ++ [median] ++ sibling keys is the key
\* sequence before the split; on any other key count it throws.
C21_SplitSibling ==
    \A n \in NodesOf(root) :
       LET s   == splitSibling(n)
           m   == order
           mid == (m - 1) \div 2
       IN IF Len(n.keys) = m - 1
          THEN /\ s.err = NoErr
               /\ s.midVal = n.keys[mid + 1]
               /\ s.node.keys = [i \in 1..mid |-> n.keys[i]]
               /\ s.sibling.keys = [i \in 1..(m - 2 - mid) |-> n.keys[mid + 1 + i]]
               /\ s.sibling.is_leaf = n.is_leaf /\ s.node.is_leaf = n.is_leaf
               /\ (s.node.keys \o <<s.midVal>>) \o s.sibling.keys = n.keys
               /\ IF n.is_leaf
                  THEN s.node.childrens = <<>> /\ s.sibling.childrens = <<>>
                  ELSE /\ s.node.childrens = [i \in 1..(mid + 1) |-> n.childrens[i]]
                       /\ s.node.childrens \o s.sibling.childrens = n.childrens
          ELSE s.err = ErrSplit

\* a tree that splits have shaped holds a full internal node, a full leaf
\* and a node that is not full
C21_Witness ==
    /\ ~root.is_leaf
    /\ \E n \in NodesOf(root) : ~n.is_leaf /\ Len(n.keys) = order - 1
    /\ \E n \in NodesOf(root) : n.is_leaf /\ Len(n.keys) = order - 1
    /\ \E n \in NodesOf(root) : Len(n.keys) # order - 1

\* ---- C22 ----------------------------------------------------------------
\* C22: keyIndex(node, val) returns the smallest index i with
\* node.keys[i] >= val, and keys.size() when no key is >= val, for every
\* sorted key sequence, duplicates included.  (Checked on the key sequence
\* of every node of every reachable tree, for the values below, among and
\* above the keys; positions in the formula count from 0 as in the code.)
C22_KeyIndexLowerBound ==
    \A n \in NodesOf(root) : \A val \in 0..(MaxVal + 1) :
       LET size == Len(n.keys)
           ge   == {i \in 0..(size - 1) : n.keys[i + 1] >= val}
       IN IsSorted(n.keys) =>
             keyIndex(n, val) =
                IF ge = {} THEN size
                ELSE CHOOSE i \in ge : \A j \in ge : i <= j

\* a find has run on a tree with a node where the index returned for the
\* value lies behind a smaller key, the key at that index is the value and
\* is repeated right after it, and for a val above all keys the answer is
\* keys.size()
C22_Witness ==
    /\ lastOp.op = "find" /\ lastOp.ret
    /\ \E n \in NodesOf(root) :
          LET i == keyIndex(n, lastOp.val) IN
          /\ IsSorted(n.keys)
          /\ i > 0 /\ i + 2 <= Len(n.keys)
          /\ n.keys[i + 1] = lastOp.val /\ n.keys[i + 2] = lastOp.val
          /\ keyIndex(n, MaxVal + 1) = Len(n.keys)

\* ---- C25 ----------------------------------------------------------------
\* C25: for every even order m, after any finite sequence of insert and
\* remove calls, every non-root node holds between min_keys and m - 1 keys,
\* the root holds at most m - 1 keys, and the root is never an internal node
\* with zero keys.
C25_EvenOrderKeyBounds ==
    order % 2 = 0 =>
       /\ \A n \in NonRootNodes(root) :
             min_keys <= Len(n.keys) /\ Len(n.keys) <= order - 1
       /\ Len(root.keys) <= order - 1
       /\ ~(~root.is_leaf /\ root.keys = <<>>)

\* a remove has completed on a tree of three levels whose root has a child
\* with exactly min_keys keys, and a leaf is full
C25_Witness ==
    /\ order % 2 = 0
    /\ lastOp.op = "remove" /\ lastOp.ret /\ err = NoErr
    /\ ~root.is_leaf /\ ~root.childrens[1].is_leaf
    /\ \E i \in 1..Len(root.childrens) : Len(root.childrens[i].keys) = min_keys
    /\ \E n \in NonRootNodes(root) : n.is_leaf /\ Len(n.keys) = order - 1

\* ---- the splits of insert -------------------------------------------------
\* The nodes splitSibling is called on in the course of insertVal(node, val)
\* (through splitChild), each as it is at the call.
RECURSIVE splitArgs(_, _)
splitArgs(node, val) ==
    IF node.is_leaf THEN {}
    ELSE LET child == node.childrens[keyIndex(node, val) + 1]
             d     == descend(node, val)
         IN (IF Len(child.keys) = order - 1 THEN {child} ELSE {})
            \cup splitArgs(d.node.childrens[d.idx + 1], val)

\* the nodes split by insert(val) on the tree: a full root, then the full
\* children on the way down
insertSplits(val) ==
    (IF Len(root.keys) = order - 1 THEN {root} ELSE {})
    \cup splitArgs(splitRoot(root), val)

\* ---- C26 ----------------------------------------------------------------
\* C26: every split performed during insert (the root split or the split of
\* a child with order - 1 keys) leaves both the original node and the new
\* sibling with at least min_keys keys, for every order >= 3.
C26_SplitHalvesMinKeys ==
    err # ErrCrash =>
       \A val \in Vals : \A n \in insertSplits(val) :
          LET s == splitSibling(n) IN
          /\ s.err = NoErr
          /\ Len(s.node.keys) >= min_keys
          /\ Len(s.sibling.keys) >= min_keys

\* ---- the leaves of remove ------------------------------------------------
\* The calls of removeVal on a leaf in the course of removeVal(node, val),
\* up to the first crash: the leaf as it is at the call and the value the
\* call is asked to delete.  ub is the outcome of an out-of-bounds read
\* next to a buffer, as in removeVal.
RECURSIVE leafCalls(_, _, _)
leafCalls(node, val, ub) ==
    LET idx == keyIndex(node, val) IN
    IF node.is_leaf THEN {[node |-> node, val |-> val]}
    ELSE IF idx < Len(node.keys) /\ node.keys[idx + 1] = val
    THEN LET usePred == Len(node.childrens[idx + 1].keys) > min_keys
             useSuc  == ~usePred /\ Len(node.childrens[idx + 2].keys) > min_keys
             read    == IF usePred THEN findPred(node.childrens[idx + 1])
                        ELSE IF useSuc THEN findSuc(node.childrens[idx + 2])
                        ELSE val
             nextValToRemove == IF read = OOB THEN ub ELSE read
             victim  == IF useSuc THEN idx + 1 ELSE idx
             node1   == IF usePred \/ useSuc
                        THEN [node EXCEPT !.keys[idx + 1] = nextValToRemove]
                        ELSE mergeSiblings(node, idx)
         IN IF read = NullDeref \/ (read = OOB /\ ub = Crash) THEN {}
            ELSE leafCalls(node1.childrens[victim + 1], nextValToRemove, ub)
    ELSE leafCalls(node.childrens[idx + 1], val, ub)

\* ---- C28 ----------------------------------------------------------------
\* C28: during remove(v) of a value that find reports present, every
\* removeVal call that reaches a leaf finds the value it was asked to delete
\* in that leaf (and erases it): the branch of a leaf that does not hold the
\* value is never taken, for every order >= 3 and with duplicates.
C28_LeafHoldsValue ==
    err # ErrCrash =>
       \A v \in Vals :
          findVal(root, v) =>
             \A ub \in (IF removeVal(root, v, Crash).oob THEN UBOutcomes ELSE {Crash}) :
             \A c \in leafCalls(root, v, ub) :
                LET idx == keyIndex(c.node, c.val) IN
                /\ idx < Len(c.node.keys) /\ c.node.keys[idx + 1] = c.val
                /\ removeVal(c.node, c.val, ub).node.keys = EraseAt(c.node.keys, idx)

\* a remove has completed, and on the tree it left the remove of a key of
\* the internal root replaces the key by its predecessor or successor and
\* comes to a leaf asked for that other value, which the leaf holds
C28_Witness ==
    /\ lastOp.op = "remove" /\ lastOp.ret /\ err = NoErr
    /\ ~root.is_leaf
    /\ \E v \in Vals : \E c \in leafCalls(root, v, Crash) :
          /\ \E i \in 1..Len(root.keys) : root.keys[i] = v
          /\ c.val # v
          /\ \E i \in 1..Len(c.node.keys) : c.node.keys[i] = c.val

\* ---- C24 ----------------------------------------------------------------
\* C24: for the AVL tree, after any sequence of insert and remove calls
\* (duplicates allowed), the inorder traversal visits the stored values in
\* non-decreasing order and contains exactly the inserted values minus the
\* successfully removed ones (ref counts an insert, and a remove that
\* returned true).
C24_AVLInorder ==
    /\ IsSorted(AVLTree_inorder)
    /\ \A v \in AVLVals :
          Cardinality({i \in 1..Len(AVLTree_inorder) : AVLTree_inorder[i] = v}) = ref[v]
    /\ \A i \in 1..Len(AVLTree_inorder) : AVLTree_inorder[i] \in AVLVals

\* a remove has returned true on a tree that still holds four nodes or
\* more, among them a value twice and a node with two children
C24_Witness ==
    /\ lastOp.op = "remove" /\ lastOp.ret
    /\ AVLSize(avl_root) >= 4
    /\ \E v \in AVLVals : ref[v] >= 2
    /\ avl_root.left # NullNode /\ avl_root.right # NullNode

\* the height of a subtree, counted from the nodes
RECURSIVE TrueHeight(_)
TrueHeight(node) ==
    IF node = NullNode THEN 0
    ELSE 1 + Max2(TrueHeight(node.left), TrueHeight(node.right))

\* ---- C27 ----------------------------------------------------------------
\* C27: for the AVL tree, after any sequence of insert and remove calls,
\* every node's stored height equals 1 + max(height of left, height of
\* right) and the heights of its left and right subtrees differ by at most 1.
C27_AVLBalanced ==
    \A n \in AVLNodesOf(avl_root) :
       /\ n.height = 1 + Max2(TrueHeight(n.left), TrueHeight(n.right))
       /\ TrueHeight(n.left) - TrueHeight(n.right) \in {-1, 0, 1}

\* a remove has returned true and left a tree of height 3 with a node whose
\* subtrees differ in height
C27_Witness ==
    /\ lastOp.op = "remove" /\ lastOp.ret
    /\ get_height(avl_root) = 3
    /\ \E n \in AVLNodesOf(avl_root) : TrueHeight(n.left) # TrueHeight(n.right)

\* ---- C30 ----------------------------------------------------------------
\* C30: after s.merge_stack(t), s and t distinct, t is empty and s holds,
\* from top to bottom, the former elements of t in their former
\* top-to-bottom order followed by the former elements of s in their former
\* order; popping an empty stack raises an error and leaves it empty.
C30_MergeStack ==
    [][/\ (lastOp'.op = "s.merge_stack(t)") =>
             (/\ stack_t'.top = <<>>
              /\ stack_s'.top = stack_t.top \o stack_s.top
              /\ err' = NoErr)
       /\ (lastOp'.op = "s.pop" /\ stack_s.top = <<>>) =>
             (/\ err' = ErrEmptyStack /\ ~lastOp'.ret
              /\ stack_s'.top = <<>>)
       /\ (lastOp'.op = "t.pop" /\ stack_t.top = <<>>) =>
             (/\ err' = ErrEmptyStack /\ ~lastOp'.ret
              /\ stack_t'.top = <<>>)]_vars

\* s.merge_stack(t) has moved two elements or more onto a stack that held
\* some, and the two on top differ
C30_Witness ==
    /\ lastOp.op = "s.merge_stack(t)" /\ lastOp.val >= 2
    /\ Len(stack_s.top) > lastOp.val
    /\ stack_s.top[1] # stack_s.top[2]
    /\ stack_t.top = <<>>

\* ---- C29 ----------------------------------------------------------------
\* C29: in the command shell, after any sequence of init, insert, remove
\* and find commands, the tree_size reported by 'size' equals the number of
\* keys stored in the current tree: init resets it to 0, a successful
\* insert adds 1, a remove of a present value subtracts 1, and a remove of
\* an absent value or a find leaves it unchanged.
C29_TreeSizeCountsKeys ==
    [][/\ (lastOp'.op = "size") => (lastOp'.val = TotalKeys(root'))
       /\ (lastOp'.op = "init" /\ lastOp'.ret) =>
             (tree_size' = 0 /\ TotalKeys(root') = 0)
       /\ (lastOp'.op = "insert" /\ err' = NoErr) =>
             (tree_size' = tree_size + 1 /\ TotalKeys(root') = TotalKeys(root) + 1)
       /\ (lastOp'.op = "remove" /\ lastOp'.ret /\ err' = NoErr) =>
             (tree_size' = tree_size - 1 /\ TotalKeys(root') = TotalKeys(root) - 1)
       /\ (\/ lastOp'.op = "remove" /\ ~lastOp'.ret
           \/ lastOp'.op = "find"
           \/ lastOp'.op = "init" /\ ~lastOp'.ret) =>
             (tree_size' = tree_size /\ root' = root)]_vars

\* 'size' has reported the number of keys of a tree that has been split
\* and holds a value twice
C29_Witness ==
    /\ lastOp.op = "size" /\ lastOp.val >= 3
    /\ lastOp.val = TotalKeys(root)
    /\ ~root.is_leaf
    /\ \E v \in Vals : CountKey(root, v) >= 2

\* ---- C23 ----------------------------------------------------------------
\* v is the list Visit(hp, r).  Every address reached is a live object and
\* every live object is reached (so no slot is null, none holds a dead
\* object, and every slot of a live object is counted in v); no address is
\* reached twice (every object is held by exactly one slot, the one at r
\* by none); an object has slots iff it is internal.
OwnedOnce(hp, v) ==
    LET reached == {v[i] : i \in 1..Len(v)} IN
    /\ reached = DOMAIN hp
    /\ Cardinality(reached) = Len(v)
    /\ \A a \in reached : hp[a].is_leaf <=> hp[a].childrens = <<>>

\* what the call op(val) leaves of the objects hb of the tree
ObjectsAfter(hb, op, val) ==
    IF op = "insert" THEN h_insert(hb, RootPtr, val) ELSE h_remove(hb, RootPtr, val)

\* an object has passed from a slot of p to a slot of q, both still live
MovesChild(hb, hp) ==
    \E p, q \in DOMAIN hb \cap DOMAIN hp :
       /\ p # q
       /\ (SlotsOf(hb, p) \cap SlotsOf(hp, q)) \cap DOMAIN hp # {}

\* C23: after any sequence of insert and remove calls (through every split,
\* merge, borrow and root collapse), every node reachable from the root is
\* held by exactly one child slot of exactly one parent (the root by none),
\* no child slot of a reachable internal node is empty, and a node discarded
\* by a merge or root collapse is no longer reachable.  Stated of every
\* completed insert and remove, on the objects of the tree it is made on:
\* the objects it leaves are those of the tree it leaves.
C23_SingleOwner ==
    [][(lastOp'.op \in {"insert", "remove"} /\ err = NoErr /\ err' = NoErr) =>
          \E hb \in {HeapOf(root)} :
             \E r \in {ObjectsAfter(hb, lastOp'.op, lastOp'.val)} :
                /\ r.err = NoErr
                /\ SameTree(r.hp, r.root, root')
                /\ \E v \in {Visit(r.hp, r.root)} :
                      /\ OwnedOnce(r.hp, v)
                      /\ \A i \in 1..Len(v) : v[i] \notin (DOMAIN hb \ DOMAIN r.hp)]_vars

\* a remove has completed and has left a tree of three levels on which a
\* further remove completes by passing a child from one internal node to
\* its sibling (a borrow between internal nodes)
C23_Witness ==
    /\ lastOp.op = "remove" /\ lastOp.ret /\ err = NoErr
    /\ ~root.is_leaf /\ ~root.childrens[1].is_leaf
    /\ \E v \in Vals :
          \E r \in {h_remove(HeapOf(root), RootPtr, v)} :
             r.err = NoErr /\ MovesChild(HeapOf(root), r.hp)

====
